---------------------------- MODULE Spec2Model ----------------------------
(***************************************************************************)
(* Model of decodense/orbitals.py: loc_orbs (orbital localization per spin *)
(* channel), assign_rdm1s (population weights per occupied spin-orbital,   *)
(* optional bond-wise partitioning) and the helper _population.            *)
(*                                                                         *)
(* Real numbers are modelled by integers.  The overlap matrix is scaled by *)
(* 2 and the coefficients by a further factor, so that a column c with     *)
(* c^T S c = Unit is a normalised orbital and a weight of w stands for the *)
(* population w / Unit.  Spin channels are 0 (alpha) and 1 (beta), atoms   *)
(* and orbital indices are numbered from 0 as in the source; sequences are *)
(* 1-based, so orbital j of a channel is element j + 1 of its sequence.    *)
(*                                                                         *)
(* Only the occupied columns mo_coeff[i][:, spin_mo] are modelled; the     *)
(* verbose print (lines 129-137) has no effect on the state and is left    *)
(* out.  The libraries are modelled by what they document: the pyscf       *)
(* localization kernels return some set of columns, converged or not;      *)
(* mp.Pool refuses a process count below 1 and pool.map gathers results by *)
(* task index; np.argsort may order equal weights either way; numpy is one *)
(* that still provides np.int (line 142).  A molecule has at least one     *)
(* alpha electron and no more beta than alpha electrons.                   *)
(***************************************************************************)
EXTENDS Integers, Sequences, FiniteSets, TLC

\* ---------------------------------------------------------------- bounds
\* largest number of occupied orbitals of a spin channel
MaxOcc == 2
\* lib.num_threads(): the parallelism the host offers
NumThreads == 2

\* ------------------------------------------------------- the test molecule
\* pmol.ao_labels(fmt=None): k[0] of every AO label, the atom of the AO
ao_labels == <<0, 0, 0, 1, 1, 2>>
\* AO labels of the minao reference molecule (pop == 'iao')
iao_labels == <<0, 1, 2>>

Atoms == {ao_labels[k] : k \in DOMAIN ao_labels}
natm == Cardinality(Atoms)

\* the overlap matrix s (scaled by 2): unit diagonal, AOs 5 and 6 overlap
s == [k \in DOMAIN ao_labels |-> [l \in DOMAIN ao_labels |->
        IF k = l THEN 2 ELSE IF {k, l} = {5, 6} THEN 1 ELSE 0]]

\* np.eye(n)
eye(n) == [k \in 1..n |-> [l \in 1..n |-> IF k = l THEN 1 ELSE 0]]

\* the orthogonalized IAOs lo.vec_lowdin(lo.iao.iao(...), s): one minimal
\* basis function per atom, the AOs 1, 4 and 6 (the library's result is
\* fixed in the model)
iao_mat == [k \in DOMAIN ao_labels |-> [p \in DOMAIN iao_labels |->
        IF <<k, p>> \in {<<1, 1>>, <<4, 2>>, <<6, 3>>} THEN 1 ELSE 0]]

\* coefficient columns an SCF or a localization can deliver; the last one
\* is not normalised and has a negative Mulliken population
Cat == << <<3, 3, 1, 1, 0, 0>>,
          <<3, 1, 0, 3, 1, 0>>,
          <<3, 3, 0, 1, 1, 0>>,
          <<1, 1, 0, 3, 0, 3>>,
          <<0, 0, 0, 0, 1, -3>> >>

\* n consecutive catalogue columns starting at offset k (cyclic)
Window(k, n) == [p \in 1..n |-> Cat[((k + p - 1) % Len(Cat)) + 1]]
Offsets == 0..(Len(Cat) - 1)

\* values of the thres keyword (0.9 in model units)
ThresVals == {36}

\* ------------------------------------------------------------ arithmetic
RECURSIVE SumTo(_, _)
\* sum of f[1] .. f[n]
SumTo(f, n) == IF n = 0 THEN 0 ELSE SumTo(f, n - 1) + f[n]

Abs(x) == IF x < 0 THEN -x ELSE x

\* c^T S c
Norm(c, ovlp) ==
    SumTo([k \in DOMAIN c |-> SumTo([l \in DOMAIN c |-> c[k] * ovlp[k][l] * c[l]], Len(c))], Len(c))

\* the norm of a normalised orbital in model units
Unit == Norm(Cat[1], s)

\* ------------------------------------------------ tools.make_rdm1, contract
\* make_rdm1(orb, occ): occ * orb orb^T
make_rdm1(orb, occ) == [k \in DOMAIN orb |-> [l \in DOMAIN orb |-> occ * orb[k] * orb[l]]]

\* contract('ij,ji->i', rdm1, ovlp)
contract_diag(rdm1, ovlp) ==
    [k \in DOMAIN rdm1 |-> SumTo([l \in DOMAIN rdm1 |-> rdm1[k][l] * ovlp[l][k]], Len(rdm1))]

\* contract('ki,kl,lj->ij', iao, s, mo) for one column c of mo
contract_iao(iao, ovlp, c) ==
    [p \in DOMAIN iao_labels |->
        SumTo([k \in DOMAIN c |->
            SumTo([l \in DOMAIN c |-> iao[k][p] * ovlp[k][l] * c[l]], Len(c))], Len(c))]

\* ---------------------------------------------------------- _population
RECURSIVE PopLoopSkipLast(_, _, _, _)
PopLoopSkipLast(labels, pop, populations, i) ==
    IF i >= Len(labels) THEN populations
    ELSE PopLoopSkipLast(labels, pop,
            [populations EXCEPT ![labels[i]] = @ + pop[i]], i + 1)

RECURSIVE PopLoop(_, _, _, _)
\* for i, k in enumerate(ao_labels): populations[k[0]] += pop[i]
PopLoop(labels, pop, populations, i) ==
    IF i > Len(labels) THEN populations
    ELSE PopLoop(labels, pop,
            [populations EXCEPT ![labels[i]] = @ + pop[i]], i + 1)

_population(n, labels, ovlp, rdm1) ==
    PopLoop(labels, contract_diag(rdm1, ovlp), [a \in 0..(n - 1) |-> 0], 1)

\* get_weights(orb_idx) with its free variables mo, mocc, ovlp, ao_labels
get_weights(mo, mocc, ovlp, labels, orb_idx) ==
    _population(natm, labels, ovlp, make_rdm1(mo[orb_idx + 1], mocc[orb_idx + 1]))

\* ------------------------------------------------------- molecule, options
\* mol.alpha.size / mol.beta.size
Size(m, c) == IF c = 0 THEN m.alpha ELSE m.beta

\* occupation numbers an occupied orbital can carry
Occupations == {1, 2}

ClosedShellWrongRef(r, m) == r = "unrestricted" /\ m.spin = 0

\* the closed-shell test: ref == 'restricted' and mol.spin == 0
ClosedShell(r, m) == r = "restricted" /\ m.spin = 0

\* variant strings, as character sequences
Variants == { <<"f", "b">>, <<"p", "m">>, <<"i", "b", "o", "2">>,
              <<"i", "b", "o">>, <<"x", "y", "z">> }
Digits == {"0", "1", "2", "3", "4", "5", "6", "7", "8", "9"}

\* 'ibo' in variant
HasIbo(v) == \E p \in 1..(Len(v) - 2) : <<v[p], v[p + 1], v[p + 2]>> = <<"i", "b", "o">>

\* int(variant[-1]) succeeds
LastIsDigit(v) == Len(v) > 0 /\ v[Len(v)] \in Digits

Pops == {"mulliken", "iao", "xyz"}
Parts == {"atoms", "bonds", "eda", "xyz"}
\* **kwargs: empty, or thres given
Kwargs == {{}} \cup {{<<"thres", t>>} : t \in ThresVals}

\* what the localization kernels (lo.Boys, lo.PM, lo.ibo.ibo) can hand back
\* for n columns: some set of columns, converged within LOC_CONV or not
KernelResults(n) ==
    {[mo |-> Window(k, n), conv |-> c] : k \in Offsets, c \in {"converged", "unconverged"}}

NoArgs == [fn |-> "-", variant |-> <<>>, pop |-> "-", part |-> "-",
           multiproc |-> FALSE, kwargs |-> {}]
NoRet == [kind |-> "none"]

VARIABLES mol, ref, mo_coeff, mo_occ, pc, args, i, conv, weights, domain, pool,
          results, centres, thres, err, ret, visited

vars == <<mol, ref, mo_coeff, mo_occ, pc, args, i, conv, weights, domain, pool,
          results, centres, thres, err, ret, visited>>

\* the locals of a call before it starts
NoCall ==
    /\ i = 0
    /\ conv = [c \in 0..1 |-> "none"]
    /\ weights = <<>>
    /\ domain = 0
    /\ pool = <<>>
    /\ results = {}
    /\ centres = <<>>
    /\ thres = -1
    /\ err = "none"
    /\ ret = NoRet
    /\ visited = {}

Init ==
    /\ mol \in {[alpha |-> na, beta |-> nb, spin |-> na - nb] :
                    na \in 1..MaxOcc, nb \in 0..MaxOcc}
    /\ mol.beta <= mol.alpha
    /\ ref \in {"restricted", "unrestricted"}
    \* canonical orbitals; a restricted reference has one set for both spins
    /\ mo_coeff = [c \in 0..1 |->
                     Window(IF ref = "restricted" THEN 0 ELSE c, Size(mol, c))]
    \* mo_occ[i][spin_mo]: the occupations of the occupied orbitals
    /\ \E o \in Occupations :
          mo_occ = [c \in 0..1 |-> [p \in 1..Size(mol, c) |-> o]]
    /\ pc = "idle"
    /\ args = NoArgs
    /\ NoCall

\* ----------------------------------------------------------------- loc_orbs
CallLocOrbs ==
    /\ pc = "idle"
    /\ \E v \in Variants : args' = [NoArgs EXCEPT !.fn = "loc_orbs", !.variant = v]
    /\ pc' = "loc"
    /\ UNCHANGED <<mol, ref, mo_coeff, mo_occ, i, conv, weights, domain, pool, results,
                   centres, thres, err, ret, visited>>

\* one pass of the loop over spins (lines 29-53); the loop's end returns
LocIter ==
    /\ pc = "loc"
    /\ LET v == args.variant
           n == Size(mol, i)
       IN IF ~(v \in {<<"f", "b">>, <<"p", "m">>}) /\ HasIbo(v) /\ ~LastIsDigit(v)
          THEN \* int(variant[-1]) raises
               /\ pc' = "failed"
               /\ err' = "ValueError"
               /\ UNCHANGED <<mo_coeff, i, conv, ret, visited>>
          ELSE \E r \in KernelResults(n) :
               LET ran == v \in {<<"f", "b">>, <<"p", "m">>} \/ HasIbo(v)
                   new == IF ran THEN r.mo ELSE mo_coeff[i]
               IN /\ conv' = [conv EXCEPT ![i] = IF ran THEN r.conv ELSE @]
                  /\ visited' = visited \cup {<<"loc", i>>}
                  /\ IF ClosedShell(ref, mol)
                     THEN /\ mo_coeff' = [c \in 0..1 |-> new]
                          /\ pc' = "done"
                          /\ ret' = [kind |-> "mo_coeff"]
                          /\ i' = i
                     ELSE /\ mo_coeff' = [mo_coeff EXCEPT ![i] = new]
                          /\ IF i = 1
                             THEN pc' = "done" /\ ret' = [kind |-> "mo_coeff"] /\ i' = i
                             ELSE pc' = pc /\ ret' = ret /\ i' = i + 1
                  /\ err' = err
    /\ UNCHANGED <<mol, ref, mo_occ, args, weights, domain, pool, results, centres, thres>>

\* the caller takes the result or the exception; the next call starts afresh
Reset ==
    /\ pc \in {"done", "failed"}
    /\ pc' = "idle"
    /\ args' = NoArgs
    /\ i' = 0
    /\ conv' = [c \in 0..1 |-> "none"]
    /\ weights' = <<>>
    /\ domain' = 0
    /\ pool' = <<>>
    /\ results' = {}
    /\ centres' = <<>>
    /\ thres' = -1
    /\ err' = "none"
    /\ ret' = NoRet
    /\ visited' = {}
    /\ UNCHANGED <<mol, ref, mo_coeff, mo_occ>>

\* ------------------------------------------------------------- assign_rdm1s
\* pmol.ao_labels (lines 70-80): the minao molecule for 'iao', else mol
Labels(pop) == IF pop = "iao" THEN iao_labels ELSE ao_labels

\* ovlp (lines 82-86): s for 'mulliken', else the identity
Ovlp(pop) == IF pop = "mulliken" THEN s ELSE eye(Len(Labels(pop)))

\* whether lines 106-111 bind mo
MoBound(pop) == pop \in {"mulliken", "iao"}

\* mo of channel c (lines 106-111)
Mo(pop, coeff, c) ==
    IF pop = "mulliken" THEN coeff[c]
    ELSE [p \in DOMAIN coeff[c] |-> contract_iao(iao_mat, s, coeff[c][p])]

\* list(map(get_weights, domain)) for channel c
SeqWeights(pop, coeff, occ, m, c) ==
    [p \in 1..Size(m, c) |->
        get_weights(Mo(pop, coeff, c), occ[c], Ovlp(pop), Labels(pop), p - 1)]

\* pool.map's gather: the result of task j goes to position j
Gather(res, j, w) == res \cup {<<j, w>>}

\* the list pool.map returns once every task is done
Gathered(res, n) == [p \in 1..n |-> (CHOOSE e \in res : e[1] = p - 1)[2]]

KwGetDefault(kw, key) ==
    IF \E e \in kw : e[1] = key
    THEN [ok |-> TRUE, val |-> (CHOOSE e \in kw : e[1] = key)[2]]
    ELSE [ok |-> TRUE, val |-> 0]

\* kwargs[key]: the value, or a KeyError
KwGet(kw, key) ==
    IF \E e \in kw : e[1] = key
    THEN [ok |-> TRUE, val |-> (CHOOSE e \in kw : e[1] = key)[2]]
    ELSE [ok |-> FALSE, val |-> -1]

\* np.argsort(w): the atoms in ascending order of w; the order among equal
\* weights is the sort's choice
Argsort(w) ==
    {q \in [1..natm -> Atoms] :
        /\ \A a, b \in 1..natm : a # b => q[a] # q[b]
        /\ \A a \in 1..(natm - 1) : w[q[a]] <= w[q[a + 1]]}

\* q[::-1]
Reversed(q) == [a \in DOMAIN q |-> q[Len(q) + 1 - a]]

IsCoreInclusive(w, top, t) == Abs(w[top]) >= t

\* np.abs(weights[i][j][max_idx[0]]) > thres
IsCore(w, top, t) == Abs(w[top]) > t

\* np.sort of a pair of atoms
SortPair(a, b) == IF a <= b THEN <<a, b>> ELSE <<b, a>>

\* lines 149-156 for one orbital with its sorted indices max_idx
Centre(w, t, max_idx) ==
    IF IsCore(w, max_idx[1], t) THEN <<max_idx[1], max_idx[1]>>
    ELSE SortPair(max_idx[1], max_idx[2])

\* the centre pairs lines 149-156 can give an orbital of weights w
CentreSet(w, t) == {Centre(w, t, Reversed(q)) : q \in Argsort(w)}

PairLess(a, b) == a[1] < b[1] \/ (a[1] = b[1] /\ a[2] < b[2])

RECURSIVE SortPairs(_)
SortPairs(S) ==
    IF S = {} THEN <<>>
    ELSE LET m == CHOOSE x \in S : \A y \in S \ {x} : PairLess(x, y)
         IN <<m>> \o SortPairs(S \ {m})

RECURSIVE SortInts(_)
SortInts(S) ==
    IF S = {} THEN <<>>
    ELSE LET m == CHOOSE x \in S : \A y \in S : x <= y
         IN <<m>> \o SortInts(S \ {m})

\* np.unique(cs, axis=0): the distinct rows in lexicographic order
Unique(cs) == SortPairs({cs[p] : p \in DOMAIN cs})

RowMatchAny(row, u) == row[1] = u[1] \/ row[2] = u[2]

\* (centres[i] == j).all(axis=1) for one row
RowMatch(row, u) == row[1] = u[1] /\ row[2] = u[2]

\* np.where(...)[0]: the orbital indices whose row matches u, ascending
Where(cs, u) == SortInts({p - 1 : p \in {x \in DOMAIN cs : RowMatch(cs[x], u)}})

\* rep_idx of one channel (line 163)
RepIdx(cs, uniq) == [g \in DOMAIN uniq |-> Where(cs, uniq[g])]

\* where line 139 goes
AfterWeights(part) == IF part = "bonds" THEN "bonds_init" ELSE "return"

\* lines 58-100: the call, pmol, ovlp and the zeroed weights
CallAssign ==
    /\ pc = "idle"
    /\ \E pop \in Pops, part \in Parts, mp \in BOOLEAN, kw \in Kwargs :
          args' = [NoArgs EXCEPT !.fn = "assign_rdm1s", !.pop = pop, !.part = part,
                                 !.multiproc = mp, !.kwargs = kw]
    /\ LET n_spin == IF mol.alpha >= mol.beta THEN mol.alpha ELSE mol.beta
       IN weights' = [c \in 0..1 |-> [p \in 1..n_spin |-> [a \in Atoms |-> 0]]]
    /\ pc' = "weights"
    /\ UNCHANGED <<mol, ref, mo_coeff, mo_occ, i, conv, domain, pool, results, centres,
                   thres, err, ret, visited>>

\* lines 124-127 and the loop's step, with L the list computed for channel i
ChannelDone(L) ==
    /\ visited' = visited \cup {<<"weights", i>>}
    /\ IF ClosedShell(ref, mol)
       THEN /\ weights' = [c \in 0..1 |-> L]
            /\ pc' = AfterWeights(args.part)
            /\ i' = i
       ELSE /\ weights' = [weights EXCEPT ![i] = L]
            /\ IF i = 1
               THEN pc' = AfterWeights(args.part) /\ i' = i
               ELSE pc' = "weights" /\ i' = i + 1

\* lines 103-127 with multiproc false: one pass of the loop over spin
WeightsSeq ==
    /\ pc = "weights"
    /\ ~args.multiproc
    /\ domain' = Size(mol, i)
    /\ IF Size(mol, i) > 0 /\ ~MoBound(args.pop)
       THEN \* get_weights reads mo, which no branch has bound
            /\ pc' = "failed"
            /\ err' = "NameError"
            /\ UNCHANGED <<weights, i, visited>>
       ELSE /\ ChannelDone(SeqWeights(args.pop, mo_coeff, mo_occ, mol, i))
            /\ err' = err
    /\ UNCHANGED <<mol, ref, mo_coeff, mo_occ, args, conv, pool, results, centres, thres, ret>>

\* lines 115-119: mp.Pool(processes=min(domain.size, lib.num_threads()))
PoolOpen ==
    /\ pc = "weights"
    /\ args.multiproc
    /\ domain' = Size(mol, i)
    /\ LET n == Size(mol, i)
           n_threads == IF n <= NumThreads THEN n ELSE NumThreads
       IN IF n_threads < 1
          THEN \* Pool refuses to start without a process
               /\ pc' = "failed"
               /\ err' = "ValueError"
               /\ UNCHANGED <<pool, results>>
          ELSE /\ pool' = [j \in 0..(n - 1) |-> "queued"]
               /\ results' = {}
               /\ pc' = "pool"
               /\ err' = err
    /\ UNCHANGED <<mol, ref, mo_coeff, mo_occ, args, i, conv, weights, centres, thres, ret, visited>>

\* a free worker takes task j
PoolStart(j) ==
    /\ pc = "pool"
    /\ j \in DOMAIN pool
    /\ pool[j] = "queued"
    /\ LET n_threads == IF domain <= NumThreads THEN domain ELSE NumThreads
       IN Cardinality({k \in DOMAIN pool : pool[k] = "running"}) < n_threads
    /\ pool' = [pool EXCEPT ![j] = "running"]
    /\ UNCHANGED <<mol, ref, mo_coeff, mo_occ, pc, args, i, conv, weights, domain, results,
                   centres, thres, err, ret, visited>>

\* the worker finishes get_weights(j); its result is gathered, its exception
\* ends the map and the pool
PoolFinish(j) ==
    /\ pc = "pool"
    /\ j \in DOMAIN pool
    /\ pool[j] = "running"
    /\ IF ~MoBound(args.pop)
       THEN /\ pc' = "failed"
            /\ err' = "NameError"
            /\ pool' = <<>>
            /\ results' = {}
       ELSE /\ results' = Gather(results, j,
                    get_weights(Mo(args.pop, mo_coeff, i), mo_occ[i],
                                Ovlp(args.pop), Labels(args.pop), j))
            /\ pool' = [pool EXCEPT ![j] = "done"]
            /\ UNCHANGED <<pc, err>>
    /\ UNCHANGED <<mol, ref, mo_coeff, mo_occ, args, i, conv, weights, domain, centres,
                   thres, ret, visited>>

\* line 120: every task is done, pool.map returns and the pool is closed
PoolJoin ==
    /\ pc = "pool"
    /\ \A j \in DOMAIN pool : pool[j] = "done"
    /\ ChannelDone(Gathered(results, domain))
    /\ pool' = <<>>
    /\ results' = {}
    /\ UNCHANGED <<mol, ref, mo_coeff, mo_occ, args, conv, domain, centres, thres, err, ret>>

\* lines 140-143: the centres arrays and the threshold
BondsInit ==
    /\ pc = "bonds_init"
    /\ centres' = [c \in 0..1 |-> [p \in 1..Size(mol, c) |-> <<0, 0>>]]
    /\ LET t == KwGet(args.kwargs, "thres")
       IN IF t.ok
          THEN thres' = t.val /\ pc' = "bonds" /\ i' = 0 /\ err' = err
          ELSE thres' = thres /\ pc' = "failed" /\ i' = i /\ err' = "KeyError"
    /\ UNCHANGED <<mol, ref, mo_coeff, mo_occ, args, conv, weights, domain, pool, results,
                   ret, visited>>

\* lines 145-160: one pass of the loop over spin; j runs over domain, the
\* index range the weights loop left behind
BondsIter ==
    /\ pc = "bonds"
    /\ IF domain > Len(weights[i]) \/ domain > Len(centres[i])
       THEN /\ pc' = "failed"
            /\ err' = "IndexError"
            /\ UNCHANGED <<centres, i, visited>>
       ELSE /\ \E new \in [DOMAIN centres[i] -> Atoms \X Atoms] :
                 /\ \A p \in DOMAIN centres[i] :
                       IF p <= domain
                       THEN new[p] \in CentreSet(weights[i][p], thres)
                       ELSE new[p] = centres[i][p]
                 /\ IF ClosedShell(ref, mol)
                    THEN centres' = [c \in 0..1 |-> new] /\ pc' = "return" /\ i' = i
                    ELSE /\ centres' = [centres EXCEPT ![i] = new]
                         /\ IF i = 1
                            THEN pc' = "return" /\ i' = i
                            ELSE pc' = pc /\ i' = i + 1
            /\ visited' = visited \cup {<<"bonds", i>>}
            /\ err' = err
    /\ UNCHANGED <<mol, ref, mo_coeff, mo_occ, args, conv, weights, domain, pool, results,
                   thres, ret>>

\* lines 161-168: the unique centres and the groups, and the return
Return ==
    /\ pc = "return"
    /\ IF args.part \in {"atoms", "eda"}
       THEN /\ ret' = [kind |-> "weights", weights |-> weights]
            /\ pc' = "done"
            /\ err' = err
       ELSE IF args.part = "bonds"
       THEN /\ LET centres_unique == [c \in 0..1 |-> Unique(centres[c])]
               IN ret' = [kind |-> "bonds",
                          rep_idx |-> [c \in 0..1 |-> RepIdx(centres[c], centres_unique[c])],
                          centres_unique |-> centres_unique]
            /\ pc' = "done"
            /\ err' = err
       ELSE \* rep_idx was never bound
            /\ ret' = ret
            /\ pc' = "failed"
            /\ err' = "UnboundLocalError"
    /\ UNCHANGED <<mol, ref, mo_coeff, mo_occ, args, i, conv, weights, domain, pool, results,
                   centres, thres, visited>>

Next ==
    \/ CallLocOrbs
    \/ LocIter
    \/ CallAssign
    \/ WeightsSeq
    \/ PoolOpen
    \/ \E j \in 0..(MaxOcc - 1) : PoolStart(j)
    \/ \E j \in 0..(MaxOcc - 1) : PoolFinish(j)
    \/ PoolJoin
    \/ BondsInit
    \/ BondsIter
    \/ Return
    \/ Reset

Spec == Init /\ [][Next]_vars

\* ------------------------------------------------------------- properties
InLoc == args.fn = "loc_orbs"
InAssign == args.fn = "assign_rdm1s"

\* the loop over spin of lines 103-127 has run to its end
WeightsOver == InAssign /\ pc \in {"bonds_init", "bonds", "return", "done"}

\* the last channel the loops over spin visit
LastChannel == IF ref = "restricted" /\ mol.spin = 0 THEN 0 ELSE 1

RECURSIVE SumAtoms(_, _)
\* the sum of a weight vector over the atoms 0 .. n - 1
SumAtoms(w, n) == IF n = 0 THEN 0 ELSE SumAtoms(w, n - 1) + w[n - 1]

\* the largest (signed) weight of w: the weight line 149 ranks first
TopWeight(w) == CHOOSE x \in {w[a] : a \in Atoms} : \A a \in Atoms : w[a] <= x

\* the weight vector with the entries of the tuple t
Vec(t) == [a \in Atoms |-> t[a + 1]]

\* orbital p (1-based) of channel c has been through lines 149-156
Classified(c, p) ==
    /\ InAssign /\ args.part = "bonds" /\ pc \in {"bonds", "return", "done"}
    /\ p \in DOMAIN centres[c] /\ p <= domain
    /\ \/ <<"bonds", c>> \in visited
       \/ ref = "restricted" /\ mol.spin = 0 /\ <<"bonds", 0>> \in visited

\* C1: with ref == 'restricted' and mol.spin == 0 every beta result equals
\* the alpha result (columns after loc_orbs, weights, and under 'bonds' the
\* groups and unique centre pairs), and only the alpha channel is computed.
C1_ClosedShellReduction ==
    (ref = "restricted" /\ mol.spin = 0) =>
        /\ (InLoc /\ pc = "done") =>
              mo_coeff[1] = mo_coeff[0] /\ visited = {<<"loc", 0>>}
        /\ WeightsOver =>
              weights[1] = weights[0] /\ <<"weights", 1>> \notin visited
        /\ (InAssign /\ pc = "done" /\ ret.kind = "weights") =>
              ret.weights[1] = ret.weights[0]
        /\ (InAssign /\ pc = "done" /\ ret.kind = "bonds") =>
              /\ ret.rep_idx[1] = ret.rep_idx[0]
              /\ ret.centres_unique[1] = ret.centres_unique[0]
              /\ <<"bonds", 1>> \notin visited

C1_Witness ==
    /\ ref = "restricted" /\ mol.spin = 0 /\ mol.alpha = MaxOcc
    /\ InAssign /\ pc = "done" /\ ret.kind = "bonds"
    /\ mo_coeff[0] # Window(0, mol.alpha)
    /\ Len(ret.centres_unique[1]) > 1

\* C2: with multiproc=True every channel's weights are the list the
\* sequential map gives (one vector per occupied orbital, vector j computed
\* for orbital j), whatever the order the workers finish in.
C2_OrderPreserved ==
    (InAssign /\ args.multiproc /\ args.pop \in {"mulliken", "iao"}
        /\ pc \in {"bonds_init", "bonds", "return", "done", "failed"}) =>
        \A c \in 0..1 :
            weights[c] = SeqWeights(args.pop, mo_coeff, mo_occ, mol,
                                    IF LastChannel = 0 THEN 0 ELSE c)

\* C3: under 'bonds' a classified single-centre orbital sits on an atom of
\* largest weight magnitude, and a classified bonding orbital on the two
\* atoms of largest weight magnitude, in ascending order.
C3_MagnitudeRanking ==
    \A c \in 0..1 : \A p \in 1..MaxOcc :
        Classified(c, p) =>
            LET w == weights[c][p]
                a == centres[c][p][1]
                b == centres[c][p][2]
            IN /\ a <= b
               /\ \A x \in Atoms \ {a, b} :
                     Abs(w[x]) <= Abs(w[a]) /\ Abs(w[x]) <= Abs(w[b])

\* C4: under 'bonds' a classified orbital is single-centre (a, a) exactly
\* when the magnitude of its top-ranked weight is strictly greater than
\* thres; at equality it is bonding, on two distinct centres.  With thres
\* 0.9, weights [0.95, 0.05] give (0, 0) and [0.5, 0.5] give (0, 1).
C4_ThresholdBoundary ==
    \A c \in 0..1 : \A p \in 1..MaxOcc :
        Classified(c, p) =>
            LET w == weights[c][p]
                a == centres[c][p][1]
                b == centres[c][p][2]
            IN /\ (a = b) <=> (Abs(TopWeight(w)) > thres)
               /\ (\A x \in Atoms : Abs(w[x]) <= thres) => a < b
               /\ (a = b) => w[a] = TopWeight(w)
               /\ (w = Vec(<<38, 2, 0>>) /\ thres = 36) => <<a, b>> = <<0, 0>>
               /\ (w = Vec(<<20, 20, 0>>) /\ thres = 36) => <<a, b>> = <<0, 1>>

C4_Witness ==
    \E c \in 0..1 : \E p \in 1..MaxOcc :
        /\ Classified(c, p)
        /\ TopWeight(weights[c][p]) = thres
        /\ centres[c][p] = <<0, 1>>
        /\ \E d \in 0..1 : \E q \in 1..MaxOcc :
              /\ Classified(d, q)
              /\ weights[d][q] = Vec(<<38, 2, 0>>)
              /\ centres[d][q] = <<0, 0>>

\* the elements of a sequence
Range(f) == {f[x] : x \in DOMAIN f}

\* C5: under 'bonds' the returned groups of a channel partition its
\* orbital indices 0 .. n - 1, the unique centre pairs hold no duplicate,
\* and group g holds exactly the orbitals whose centre pair is unique pair g.
C5_Deduplication ==
    (InAssign /\ pc = "done" /\ ret.kind = "bonds") =>
        \A c \in 0..1 :
            LET groups == ret.rep_idx[c]
                uniq == ret.centres_unique[c]
                n == Size(mol, c)
            IN /\ Len(groups) = Len(uniq)
               /\ UNION {Range(groups[g]) : g \in DOMAIN groups} = 0..(n - 1)
               /\ \A g, h \in DOMAIN groups :
                     g # h => Range(groups[g]) \cap Range(groups[h]) = {}
               /\ \A g \in DOMAIN groups :
                     \A x, y \in DOMAIN groups[g] :
                         x # y => groups[g][x] # groups[g][y]
               /\ \A g, h \in DOMAIN uniq : g # h => uniq[g] # uniq[h]
               /\ \A g \in DOMAIN groups :
                     Range(groups[g]) =
                        {j \in 0..(n - 1) : centres[c][j + 1] = uniq[g]}

C5_Witness ==
    /\ InAssign /\ pc = "done" /\ ret.kind = "bonds"
    /\ \E g \in DOMAIN ret.rep_idx[0] : Len(ret.rep_idx[0][g]) > 1
    /\ Len(ret.centres_unique[1]) > 1

\* C6: for 'mulliken' and an orbital whose column is normalised with
\* respect to the overlap, the weights summed over the atoms equal the
\* occupation number; for every scheme the sum over the atoms equals the
\* sum of pop[k] over the basis functions.
C6_PopulationConservation ==
    WeightsOver =>
        \A c \in 0..1 : \A p \in DOMAIN mo_coeff[c] :
            LET d == IF LastChannel = 0 THEN 0 ELSE c
                col == mo_coeff[d][p]
                total == SumAtoms(weights[c][p], natm)
            IN /\ (args.pop = "mulliken" /\ Norm(col, s) = Unit) =>
                     total = mo_occ[d][p] * Unit
               /\ MoBound(args.pop) =>
                     LET orb == Mo(args.pop, mo_coeff, d)[p]
                         pop == contract_diag(make_rdm1(orb, mo_occ[d][p]),
                                              Ovlp(args.pop))
                     IN total = SumTo(pop, Len(pop))

C6_Witness ==
    /\ WeightsOver /\ args.pop = "mulliken" /\ mol.alpha > 0
    /\ Norm(mo_coeff[0][1], s) = Unit
    /\ mo_occ[0][1] = 2
    /\ weights[0][1] = Vec(<<8, 36, 36>>)

\* the call is over: it has returned or raised
Finished == pc \in {"done", "failed"}

MissingThres == InAssign /\ args.part = "bonds" /\ args.kwargs = {}

RecognisedVariant(v) ==
    \/ v \in {<<"f", "b">>, <<"p", "m">>}
    \/ Len(v) = 4 /\ <<v[1], v[2], v[3]>> = <<"i", "b", "o">> /\ v[4] \in Digits

Unrecognised ==
    \/ InLoc /\ ~RecognisedVariant(args.variant)
    \/ InAssign /\ args.pop \notin {"mulliken", "iao"}
    \/ InAssign /\ args.part \notin {"atoms", "bonds", "eda"}

\* C8: a call of loc_orbs or assign_rdm1s with an unrecognised variant,
\* scheme or policy ends in an error (whatever its class); it never returns
\* a result.
C8_UnrecognisedRejected == (Unrecognised /\ Finished) => pc = "failed"

\* C9: loc_orbs never returns normally when the optimizer of a channel it
\* ran did not converge.
C9_NonConvergenceSignalled ==
    (InLoc /\ pc = "done") => \A c \in 0..1 : conv[c] # "unconverged"

\* C10: under 'bonds', once the loop over spin of lines 145-160 is over,
\* every orbital of every channel has the centre pair the threshold rule
\* derives from its weights.
C10_EveryOrbitalClassified ==
    (InAssign /\ args.part = "bonds" /\ pc \in {"return", "done"}) =>
        \A c \in 0..1 : \A p \in 1..Size(mol, c) :
            centres[c][p] \in CentreSet(weights[c][p], thres)

=============================================================================
